---- MODULE Spec2Model ----
(***************************************************************************)
(* Model of the Minesweeper knowledge-base agent of src/src/lib.rs          *)
(* (Sentence, MinesweeperAI) and of the board it plays on (Minesweeper).    *)
(*                                                                         *)
(* add_knowledge is modelled with its internal positions: the evidence      *)
(* steps 1-3, then the `while changes` loop, one pass of which is           *)
(*   BeginPass      lines 238-256  (stage safes_to_mark / mines_to_mark)    *)
(*   MarkSafeStep   lines 258-260  (one self.mark_safe call)                *)
(*   MarkMineStep   lines 261-263  (one self.mark_mine call)                *)
(*   PruneAndDerive lines 266-286  (retain, subset derivation, extend)      *)
(* and Return when the loop condition is false.                             *)
(***************************************************************************)
EXTENDS Integers, Sequences, FiniteSets, TLC

\* ---------------------------------------------------------------- bounds
\* boards of every shape with at most MaxCells cells, every mine layout
MaxCells == 8
\* the same for the calls with free counts
MaxAnyCells == 4
\* cap on the length of the knowledge Vec (it can grow without limit)
MaxKnowledge == 16
\* the same for the games of the driver with all its buttons
MaxDriverCells == 6

\* usize subtraction below zero panics when the build has overflow checks on
\* and wraps modulo 2^64 when it has not; the model keeps both outcomes, the
\* wrap with a 30-bit word, which TLC's integers can hold (a wrapped count is
\* far above any cell count either way).
UsizeMod == 1073741824

VARIABLES
    height, width,      \* Minesweeper.height / width = MinesweeperAI.height / width
    mines,              \* Minesweeper.mines (= the true cells of Minesweeper.board)
    moves_made, known_mines, known_safes, knowledge,   \* MinesweeperAI fields
    pc,                 \* position inside add_knowledge, "idle" between calls
    changes,            \* local `changes` of add_knowledge
    safes_to_mark, mines_to_mark,   \* locals staged by a pass, not yet applied:
                        \* the cells of the Vec still to come; its order is the
                        \* HashSet iteration order (any), and marking a cell a
                        \* second time changes nothing
    ret,                \* result of the last move query
    revealed, flags, lost,   \* State.revealed / flags / lost of the driver
    first_move,         \* history: the first cell revealed (None before)
    random_used,        \* history: number of AI moves taken from make_random_move
    ak_calls,           \* history: the <<cell, count>> the driver has passed to
                        \* add_knowledge since State::new or the last reset
    ak_repeat           \* history: some cell was passed a second time since then

boardVars == <<height, width, mines>>
agentVars == <<moves_made, known_mines, known_safes, knowledge>>
callVars  == <<pc, changes, safes_to_mark, mines_to_mark>>
driverVars == <<revealed, flags, lost>>
histVars  == <<first_move, random_used>>
logVars   == <<ak_calls, ak_repeat>>
vars == <<boardVars, agentVars, callVars, ret, driverVars, histVars, logVars>>

None == <<>>
NoRet == [fn |-> "none", val |-> None]

Min(a, b) == IF a < b THEN a ELSE b
\* usize::saturating_sub(1)
SatSub1(x) == IF x = 0 THEN 0 ELSE x - 1
\* a - b on usize with overflow checks off
WrappingSub(a, b) == (a - b) % UsizeMod

Cells == (0 .. height - 1) \X (0 .. width - 1)

\* the double loop of lines 69-70 / 211-212 with the cell itself skipped
Neighbours(cell) ==
    { c \in (SatSub1(cell[1]) .. Min(cell[1] + 1, height - 1))
            \X (SatSub1(cell[2]) .. Min(cell[2] + 1, width - 1)) : c # cell }

is_mine(cell) == cell \in mines

nearby_mines(cell) == Cardinality({ c \in Neighbours(cell) : is_mine(c) })

\* ---------------------------------------------------------------- Sentence
Sentence(cells, count) == [cells |-> cells, count |-> count]

\* variant: the test is off by one
Sentence_known_mines_off_by_one(s) ==
    IF s.count = Cardinality(s.cells) + 1 THEN s.cells ELSE {}

Sentence_known_mines(s) ==
    IF s.count = Cardinality(s.cells) THEN s.cells ELSE {}

\* variant: only a one-cell sentence is read as safe
Sentence_known_safes_single(s) ==
    IF s.count = 0 /\ Cardinality(s.cells) = 1 THEN s.cells ELSE {}

Sentence_known_safes(s) ==
    IF s.count = 0 THEN s.cells ELSE {}

\* variant: the cell is removed but the count is not decremented
Sentence_mark_mine_no_decrement(s, cell) ==
    IF cell \in s.cells
    THEN Sentence(s.cells \ {cell}, s.count)
    ELSE s

Sentence_mark_mine(s, cell) ==
    IF cell \in s.cells
    THEN Sentence(s.cells \ {cell}, WrappingSub(s.count, 1))
    ELSE s

\* variant: the cell stays in the sentence
Sentence_mark_safe_keep_cell(s, cell) == s

Sentence_mark_safe(s, cell) ==
    IF cell \in s.cells
    THEN Sentence(s.cells \ {cell}, s.count)
    ELSE s

\* ---------------------------------------------------------------- MinesweeperAI
\* the `for sentence in &mut self.knowledge` loops of mark_mine / mark_safe
mark_mine_knowledge(kn, cell) ==
    [k \in DOMAIN kn |-> Sentence_mark_mine(kn[k], cell)]

\* variant: a safe cell is taken out the way a mine is, count lowered
mark_safe_knowledge_decrement(kn, cell) ==
    [k \in DOMAIN kn |-> Sentence_mark_mine(kn[k], cell)]

mark_safe_knowledge(kn, cell) ==
    [k \in DOMAIN kn |-> Sentence_mark_safe(kn[k], cell)]

\* variant: sentences emptied by the mark are dropped at once
mark_mine_and_prune(km, kn, cell) ==
    <<km \cup {cell},
      SelectSeq(mark_mine_knowledge(kn, cell), LAMBDA s : s.cells # {})>>

\* MinesweeperAI::mark_mine / mark_safe: the new <<known set, knowledge>>
mark_mine(km, kn, cell) == <<km \cup {cell}, mark_mine_knowledge(kn, cell)>>

\* variant: the set is overwritten instead of extended
mark_safe_replace(ks, kn, cell) == <<{cell}, mark_safe_knowledge(kn, cell)>>

mark_safe(ks, kn, cell) == <<ks \cup {cell}, mark_safe_knowledge(kn, cell)>>

\* `self.count -= 1` of Sentence::mark_mine goes below zero for some sentence
mark_mine_underflows(kn, cell) ==
    \E k \in DOMAIN kn : cell \in kn[k].cells /\ kn[k].count = 0

\* variant: cells known safe stay in the new sentence
set_cells_keep_safes(cell, mm, ks, km) ==
    { c \in Neighbours(cell) : c \notin mm /\ c \notin km }

\* step 3: the undetermined neighbours, evaluated after steps 1 and 2
set_cells(cell, mm, ks, km) ==
    { c \in Neighbours(cell) : c \notin mm /\ c \notin ks /\ c \notin km }

\* variant: the count is not lowered for neighbours known to be mines
known_mine_neighbours_none(cell, km) == Cardinality(Neighbours(cell) \cap {})

\* step 3: the number of `count -= 1` executed
known_mine_neighbours(cell, km) == Cardinality(Neighbours(cell) \cap km)

\* knowledge.retain(|sentence| !sentence.cells.is_empty())
NonEmpty(s) == s.cells # {}

\* variant: nothing is pruned
retain_all(kn) == kn

retain(kn) == SelectSeq(kn, NonEmpty)

\* variant: the is_subset test is missing
derives_no_subset_test(s1, s2) ==
    /\ s1 # s2
    /\ s1.cells \ s2.cells # {}

\* step 5, the pair (s1, s2) = (snap[i], snap[j]) yields a sentence
derives(s1, s2) ==
    /\ s1 # s2
    /\ s2.cells \subseteq s1.cells
    /\ s1.cells \ s2.cells # {}

\* step 5, the inner loop `for s2 in &knowledge_snapshot` from index j on
RECURSIVE new_from_pair(_, _, _)
new_from_pair(snap, i, j) ==
    IF j > Len(snap) THEN <<>>
    ELSE (IF derives(snap[i], snap[j])
          THEN <<Sentence(snap[i].cells \ snap[j].cells,
                          WrappingSub(snap[i].count, snap[j].count))>>
          ELSE <<>>) \o new_from_pair(snap, i, j + 1)

\* step 5, the outer loop `for s1 in &knowledge_snapshot` from index i on
RECURSIVE new_knowledge_from(_, _)
new_knowledge_from(snap, i) ==
    IF i > Len(snap) THEN <<>>
    ELSE new_from_pair(snap, i, 1) \o new_knowledge_from(snap, i + 1)

new_knowledge(snap) == new_knowledge_from(snap, 1)

\* `s1.count - s2.count` goes below zero for some derived pair
derive_underflows(snap) ==
    \E i, j \in DOMAIN snap :
        derives(snap[i], snap[j]) /\ snap[j].count > snap[i].count

\* step 4, lines 244-256: the cells a pass stages from the sentences
staged_safes(kn) == UNION { Sentence_known_safes(kn[k]) : k \in DOMAIN kn }

staged_mines(kn) == UNION { Sentence_known_mines(kn[k]) : k \in DOMAIN kn }

\* lines 258-260: `for safe in safes_to_mark { self.mark_safe(safe) }`
RECURSIVE mark_all_safe(_, _, _)
mark_all_safe(ks, kn, todo) ==
    IF todo = {} THEN <<ks, kn>>
    ELSE LET safe == CHOOSE c \in todo : TRUE
             ms   == mark_safe(ks, kn, safe)
         IN  mark_all_safe(ms[1], ms[2], todo \ {safe})

\* lines 261-263: `for mine in mines_to_mark { self.mark_mine(mine) }`
RECURSIVE mark_all_mine(_, _, _)
mark_all_mine(km, kn, todo) ==
    IF todo = {} THEN <<km, kn>>
    ELSE LET mine == CHOOSE c \in todo : TRUE
             mk   == mark_mine(km, kn, mine)
         IN  mark_all_mine(mk[1], mk[2], todo \ {mine})

\* lines 238-286: one whole pass of the `while changes` loop as a function
\* of the agent's fields
inference_pass(ks, km, kn) ==
    LET safes == staged_safes(kn)
        mns   == staged_mines(kn)
        ms    == mark_all_safe(ks, kn, safes)
        mk    == mark_all_mine(km, ms[2], mns)
        snap  == retain(mk[2])
        new   == new_knowledge(snap)
    IN  [known_safes |-> ms[1], known_mines |-> mk[1],
         knowledge |-> snap \o new,
         changes |-> (safes # {} \/ mns # {} \/ new # <<>>)]

\* variant: the scan runs column by column
RECURSIVE safe_scan_column_major(_, _)
safe_scan_column_major(j, i) ==
    IF j >= width THEN None
    ELSE IF i >= height THEN safe_scan_column_major(j + 1, 0)
    ELSE IF <<i, j>> \notin moves_made /\ <<i, j>> \in known_safes THEN <<i, j>>
    ELSE safe_scan_column_major(j, i + 1)

\* make_safe_move: the row-major scan of lines 299-306
RECURSIVE safe_scan(_, _)
safe_scan(i, j) ==
    IF i >= height THEN None
    ELSE IF j >= width THEN safe_scan(i + 1, 0)
    ELSE IF <<i, j>> \notin moves_made /\ <<i, j>> \in known_safes THEN <<i, j>>
    ELSE safe_scan(i, j + 1)

make_safe_move == safe_scan(0, 0)

\* variant: known mines are not excluded
RECURSIVE random_scan_with_mines(_, _)
random_scan_with_mines(i, j) ==
    IF i >= height THEN <<>>
    ELSE IF j >= width THEN random_scan_with_mines(i + 1, 0)
    ELSE (IF <<i, j>> \notin moves_made
          THEN << <<i, j>> >> ELSE <<>>) \o random_scan_with_mines(i, j + 1)

\* make_random_move: the Vec random_moves of lines 310-317
RECURSIVE random_scan(_, _)
random_scan(i, j) ==
    IF i >= height THEN <<>>
    ELSE IF j >= width THEN random_scan(i + 1, 0)
    ELSE (IF <<i, j>> \notin moves_made /\ <<i, j>> \notin known_mines
          THEN << <<i, j>> >> ELSE <<>>) \o random_scan(i, j + 1)

random_moves == random_scan(0, 0)

\* random_moves.choose(&mut rng).cloned(): every value the call can return
make_random_move ==
    IF random_moves = <<>> THEN {None}
    ELSE { random_moves[k] : k \in DOMAIN random_moves }

\* ---------------------------------------------------------------- initial states
\* State::new: Minesweeper::new and MinesweeperAI::new for one board
InitBoard(h, w, m) ==
    /\ height = h /\ width = w /\ mines = m
    /\ moves_made = {} /\ known_mines = {} /\ known_safes = {}
    /\ knowledge = <<>>
    /\ pc = "idle" /\ changes = FALSE
    /\ safes_to_mark = {} /\ mines_to_mark = {}
    /\ ret = NoRet
    /\ revealed = {} /\ flags = {} /\ lost = FALSE
    /\ first_move = None /\ random_used = 0
    /\ ak_calls = {} /\ ak_repeat = FALSE

Init ==
    \E h \in 1 .. MaxCells, w \in 1 .. MaxCells :
        /\ h * w <= MaxCells
        /\ \E m \in SUBSET ((0 .. h - 1) \X (0 .. w - 1)) : InitBoard(h, w, m)

\* ---------------------------------------------------------------- add_knowledge
\* lines 202-236: steps 1-3 and `let mut changes = true`
add_knowledge(cell, count) ==
    LET mm  == moves_made \cup {cell}
        ms  == mark_safe(known_safes, knowledge, cell)
        sc  == set_cells(cell, mm, ms[1], known_mines)
        dec == known_mine_neighbours(cell, known_mines)
    IN  /\ pc = "idle"
        /\ moves_made' = mm
        /\ known_safes' = ms[1]
        /\ \/ \* `count -= 1` below zero, overflow checks on: panic
              /\ dec > count
              /\ pc' = "panicked"
              /\ knowledge' = ms[2]
              /\ UNCHANGED changes
           \/ \* no underflow, or overflow checks off: the count wraps
              /\ Len(ms[2]) < MaxKnowledge
              /\ pc' = "loop"
              /\ changes' = TRUE
              /\ knowledge' = IF sc # {}
                              THEN Append(ms[2], Sentence(sc, WrappingSub(count, dec)))
                              ELSE ms[2]
        /\ UNCHANGED <<known_mines, safes_to_mark, mines_to_mark>>
        /\ ret' = NoRet

\* lines 237-256: the loop test succeeds, a pass starts and stages its marks
BeginPass ==
    LET safes == staged_safes(knowledge)
        mns   == staged_mines(knowledge)
    IN  /\ pc = "loop" /\ changes
        /\ safes_to_mark' = safes
        /\ mines_to_mark' = mns
        /\ changes' = (safes # {} \/ mns # {})
        /\ pc' = "mark"
        /\ UNCHANGED <<boardVars, agentVars, ret, driverVars, histVars,
                   logVars>>

\* lines 258-260: one iteration of `for safe in safes_to_mark`
MarkSafeStep ==
    /\ pc = "mark"
    /\ \E safe \in safes_to_mark :
        LET ms == mark_safe(known_safes, knowledge, safe)
        IN  /\ known_safes' = ms[1]
            /\ knowledge' = ms[2]
            /\ safes_to_mark' = safes_to_mark \ {safe}
    /\ UNCHANGED <<boardVars, moves_made, known_mines, pc, changes,
                   mines_to_mark, ret, driverVars, histVars,
                   logVars>>

\* lines 261-263: one iteration of `for mine in mines_to_mark`
MarkMineStep ==
    /\ pc = "mark" /\ safes_to_mark = {}
    /\ \E mine \in mines_to_mark :
        LET mk == mark_mine(known_mines, knowledge, mine)
        IN  /\ known_mines' = mk[1]
            /\ \/ /\ mark_mine_underflows(knowledge, mine)
                  /\ pc' = "panicked"
                  /\ UNCHANGED <<knowledge, mines_to_mark>>
               \/ /\ knowledge' = mk[2]
                  /\ mines_to_mark' = mines_to_mark \ {mine}
                  /\ pc' = pc
    /\ UNCHANGED <<boardVars, moves_made, known_safes, changes,
                   safes_to_mark, ret, driverVars, histVars,
                   logVars>>

\* variant: a derived sentence does not set `changes`
PruneAndDerive_no_flag ==
    LET snap == retain(knowledge)
        new  == new_knowledge(snap)
    IN  /\ pc = "mark" /\ safes_to_mark = {} /\ mines_to_mark = {}
        /\ Len(snap) + Len(new) <= MaxKnowledge
        /\ knowledge' = snap \o new
        /\ pc' = "loop"
        /\ UNCHANGED <<boardVars, moves_made, known_mines, known_safes, changes,
                       safes_to_mark, mines_to_mark, ret, driverVars, histVars,
                   logVars>>

\* lines 266-286: prune, derive by subset difference, extend
PruneAndDerive ==
    LET snap == retain(knowledge)
        new  == new_knowledge(snap)
    IN  /\ pc = "mark" /\ safes_to_mark = {} /\ mines_to_mark = {}
        /\ \/ /\ derive_underflows(snap)
              /\ pc' = "panicked"
              /\ knowledge' = snap
              /\ UNCHANGED changes
           \/ /\ Len(snap) + Len(new) <= MaxKnowledge
              /\ knowledge' = snap \o new
              /\ changes' = (changes \/ new # <<>>)
              /\ pc' = "loop"
        /\ UNCHANGED <<boardVars, moves_made, known_mines, known_safes,
                       safes_to_mark, mines_to_mark, ret, driverVars, histVars,
                   logVars>>

\* line 237 with changes = false: the loop ends and add_knowledge returns
Return ==
    /\ pc = "loop" /\ ~changes
    /\ pc' = "idle"
    /\ UNCHANGED <<boardVars, agentVars, changes, safes_to_mark, mines_to_mark,
                   ret, driverVars, histVars,
                   logVars>>

Inference == BeginPass \/ MarkSafeStep \/ MarkMineStep \/ PruneAndDerive \/ Return

\* ---------------------------------------------------------------- driver (main.rs)
\* variant: a move on a mine is revealed like any other
MakeMove_reveals_mine(mv) ==
    /\ revealed' = revealed \cup {mv}
    /\ add_knowledge(mv, nearby_mines(mv))
    /\ ak_calls' = ak_calls \cup {<<mv, nearby_mines(mv)>>}
    /\ ak_repeat' = (ak_repeat \/ \E p \in ak_calls : p[1] = mv)
    /\ UNCHANGED lost

\* lines 248-255: `if let Some(mv) = mv { ... }`
MakeMove(mv) ==
    IF is_mine(mv)
    THEN /\ lost' = TRUE
         /\ UNCHANGED <<agentVars, callVars, ret, revealed, logVars>>
    ELSE /\ revealed' = revealed \cup {mv}
         /\ add_knowledge(mv, nearby_mines(mv))
         /\ ak_calls' = ak_calls \cup {<<mv, nearby_mines(mv)>>}
         /\ ak_repeat' = (ak_repeat \/ \E p \in ak_calls : p[1] = mv)
         /\ UNCHANGED lost

\* history: the first cell handed to add_knowledge
RecordFirst(mv) ==
    first_move' = IF first_move = None /\ ~is_mine(mv) THEN mv ELSE first_move

\* variant: a revealed cell can be clicked again
LeftClick_revealed_again(cell) ==
    /\ pc = "idle"
    /\ cell \notin flags
    /\ MakeMove(cell) /\ RecordFirst(cell)
    /\ UNCHANGED <<boardVars, flags, random_used>>

\* lines 213-221, 248-255: left click on a board cell
LeftClick(cell) ==
    /\ pc = "idle"
    /\ cell \notin flags /\ cell \notin revealed
    /\ MakeMove(cell) /\ RecordFirst(cell)
    /\ UNCHANGED <<boardVars, flags, random_used>>

\* lines 223-234, 248-255: left click on the AI Move button
AIMove ==
    /\ pc = "idle" /\ ~lost
    /\ IF make_safe_move # None
       THEN /\ MakeMove(make_safe_move) /\ RecordFirst(make_safe_move)
            /\ UNCHANGED <<flags, random_used>>
       ELSE \E mv \in make_random_move :
               IF mv # None
               THEN /\ MakeMove(mv) /\ RecordFirst(mv)
                    /\ random_used' = random_used + 1
                    /\ UNCHANGED flags
               ELSE /\ flags' = known_mines
                    /\ ret' = [fn |-> "make_random_move", val |-> None]
                    /\ UNCHANGED <<agentVars, callVars, revealed, lost,
                                   histVars, logVars>>
    /\ UNCHANGED boardVars

\* ---------------------------------------------------------------- callers
\* variant: a cell already revealed can be revealed again
Reveal_again ==
    \E cell \in Cells :
        /\ ~is_mine(cell)
        /\ pc = "idle"
        /\ cell \notin flags
        /\ MakeMove(cell)
        /\ UNCHANGED <<boardVars, flags, histVars>>

\* a move on a cell that is not a mine: add_knowledge with its true clue
Reveal ==
    \E cell \in Cells :
        /\ ~is_mine(cell)
        /\ pc = "idle"
        /\ cell \notin flags /\ cell \notin revealed
        /\ MakeMove(cell)
        /\ UNCHANGED <<boardVars, flags, histVars>>

\* a caller asks for a safe move
SafeMoveQuery ==
    /\ pc = "idle"
    /\ ret' = [fn |-> "make_safe_move", val |-> make_safe_move]
    /\ UNCHANGED <<boardVars, agentVars, callVars, driverVars, histVars,
                   logVars>>

\* a caller asks for a random move
RandomMoveQuery ==
    /\ pc = "idle"
    /\ \E mv \in make_random_move :
        ret' = [fn |-> "make_random_move", val |-> mv]
    /\ UNCHANGED <<boardVars, agentVars, callVars, driverVars, histVars,
                   logVars>>

Next == Reveal \/ Inference \/ SafeMoveQuery \/ RandomMoveQuery

\* every sequence of reveals of non-mine cells with true clues, on every
\* board of the bounded sizes
Spec == Init /\ [][Next]_vars

\* ---------------------------------------------------------------- any clue
\* add_knowledge called directly with a count the board need not justify
\* (a count is at most the 3 x 3 window less the cell itself)
AddAnyKnowledge ==
    \E cell \in Cells, count \in 0 .. 3 * 3 - 1 :
        /\ cell \notin moves_made
        /\ add_knowledge(cell, count)
        /\ UNCHANGED <<boardVars, driverVars, histVars,
                   logVars>>

\* MinesweeperAI::new on a board of the bounded sizes; the layout plays no
\* part when the counts are free
InitAny ==
    \E h \in 1 .. MaxAnyCells, w \in 1 .. MaxAnyCells :
        h * w <= MaxAnyCells /\ InitBoard(h, w, {})

NextAny == AddAnyKnowledge \/ Inference

SpecAny == InitAny /\ [][NextAny]_vars

\* ---------------------------------------------------------------- AI game
\* State::new on a 3 x 3 board with a single mine
InitAI ==
    \E m \in (0 .. 2) \X (0 .. 2) : InitBoard(3, 3, {m})

\* the first move of the game is a click on a board cell
OpeningClick ==
    /\ revealed = {} /\ ~lost
    /\ \E cell \in Cells : LeftClick(cell)

\* every later move comes from the AI Move button
AIMoveAfterOpening == revealed # {} /\ AIMove

NextAI == OpeningClick \/ AIMoveAfterOpening \/ Inference

\* a game opened by one click and continued by the AI alone; the button is
\* pressed again and again and a running add_knowledge call keeps running
SpecAI == InitAI /\ [][NextAI]_vars /\ WF_vars(NextAI)

\* ---------------------------------------------------------------- whole driver
\* lines 214-221, 249: a left click on the last pixel row or column of the
\* board area (`x <= px_height`, `y <= px_width`) gives row = height or
\* col = width; that cell is in no set, so it becomes the move and
\* is_mine indexes the board out of bounds
LeftClickEdge ==
    /\ pc = "idle"
    /\ pc' = "panicked"
    /\ UNCHANGED <<boardVars, agentVars, changes, safes_to_mark, mines_to_mark,
                   ret, driverVars, histVars, logVars>>

\* lines 257-267: right click on a board cell
RightClick(cell) ==
    /\ pc = "idle"
    /\ IF is_mine(cell)
       THEN flags' = flags \cup {cell} /\ UNCHANGED <<revealed, lost>>
       ELSE lost' = TRUE /\ UNCHANGED <<revealed, flags>>
    /\ UNCHANGED <<boardVars, agentVars, callVars, ret, histVars, logVars>>

\* lines 237-246: left click on the Reset button; Minesweeper::new draws a
\* new layout with as many mines, MinesweeperAI::new starts empty
Reset ==
    /\ pc = "idle"
    /\ \E m \in SUBSET Cells :
        /\ Cardinality(m) = Cardinality(mines)
        /\ mines' = m
    /\ UNCHANGED <<height, width>>
    /\ moves_made' = {} /\ known_mines' = {} /\ known_safes' = {}
    /\ knowledge' = <<>>
    /\ revealed' = {} /\ flags' = {} /\ lost' = FALSE
    /\ first_move' = None /\ random_used' = 0
    /\ ak_calls' = {} /\ ak_repeat' = FALSE
    /\ ret' = NoRet
    /\ UNCHANGED callVars

\* State::new on a board of the bounded sizes, any layout
InitDriver ==
    \E h \in 1 .. MaxDriverCells, w \in 1 .. MaxDriverCells :
        /\ h * w <= MaxDriverCells
        /\ \E m \in SUBSET ((0 .. h - 1) \X (0 .. w - 1)) : InitBoard(h, w, m)

NextDriver ==
    \/ \E cell \in Cells : LeftClick(cell)
    \/ LeftClickEdge
    \/ AIMove
    \/ \E cell \in Cells : RightClick(cell)
    \/ Reset
    \/ Inference

\* every interleaving of the mouse events of the driver
SpecDriver == InitDriver /\ [][NextDriver]_vars

\* ================================================================ properties
Range(s) == { s[k] : k \in DOMAIN s }

\* the clue of a revealed cell r reduced by what the agent knows: its
\* undetermined neighbours and the number of mines still to place among them
Undetermined(r) == Neighbours(r) \ (moves_made \cup known_safes \cup known_mines)
Remaining(r) == nearby_mines(r) - Cardinality(Neighbours(r) \cap known_mines)

\* the mine layouts that agree with every clue received so far
Consistent ==
    { M \in SUBSET (Cells \ moves_made) :
        \A r \in moves_made : Cardinality(Neighbours(r) \cap M) = nearby_mines(r) }

\* C1: with true clues on non-mine cells, known_safes holds no mine,
\* known_mines holds only mines, and make_safe_move never returns a mine.
C1_Sound ==
    /\ known_safes \cap mines = {}
    /\ known_mines \subseteq mines
    /\ make_safe_move # None => ~is_mine(make_safe_move)

\* a call has returned with a mine deduced and a safe move on offer
C1_Witness ==
    pc = "idle" /\ known_mines # {} /\ make_safe_move # None

\* C2: known_safes and known_mines are disjoint in every state, the states
\* inside the inference loop included.
C2_Disjoint == known_safes \cap known_mines = {}

\* inside a pass, marks still pending, both sets already populated
C2_Witness ==
    /\ pc = "mark" /\ mines_to_mark # {}
    /\ known_safes # {} /\ known_mines # {}

\* C3 (as stated): every inference loop ends.  A pass is determined by
\* known_safes, known_mines and the set of distinct live sentences, so a loop
\* that ends never runs a pass that stages no mark, reports a change and yet
\* leaves that set of sentences as it found it: such a pass repeats forever.
C3_Terminates ==
    [][(pc = "mark" /\ pc' = "loop" /\ ~changes /\ changes')
         => Range(knowledge') # Range(knowledge)]_vars

\* C4 (as stated): when add_knowledge has returned, every cell that is a
\* mine in every layout consistent with the clues is in known_mines, and
\* every cell that is safe in every such layout is in known_safes.
C4_Complete ==
    pc = "idle" =>
        \A c \in Cells :
            /\ (\A M \in Consistent : c \in M) => c \in known_mines
            /\ (\A M \in Consistent : c \notin M) => c \in known_safes

\* C4 (amended): when add_knowledge has returned, every cell whose status
\* follows from one clue and the cells already known (all its undetermined
\* neighbours are mines, or none is), or from two clues by subset
\* difference, is in known_mines, respectively known_safes: no clue is left
\* with undetermined neighbours that are all mines or all safe, and no
\* clue's undetermined neighbours are a proper part of another's.
C4_RuleComplete ==
    pc = "idle" =>
        /\ \A r \in moves_made :
              Undetermined(r) # {} =>
                  /\ Remaining(r) # 0
                  /\ Remaining(r) # Cardinality(Undetermined(r))
        /\ \A r1, r2 \in moves_made :
              ~(/\ Undetermined(r2) # {}
                /\ Undetermined(r2) \subseteq Undetermined(r1)
                /\ Undetermined(r2) # Undetermined(r1))

\* a call has returned, one clue is fully resolved with a mine among its
\* neighbours, another is still open
C4_Witness ==
    /\ pc = "idle"
    /\ \E r \in moves_made :
          Undetermined(r) = {} /\ Neighbours(r) \cap known_mines # {}
    /\ \E r \in moves_made : Undetermined(r) # {}

\* the count of add_knowledge(cell, count) does not fit the neighbourhood:
\* adjusted for the known-mine neighbours it is negative or exceeds the
\* number of undetermined neighbours (so also: non-zero with none left)
Inconsistent(cell, count) ==
    LET mm  == moves_made \cup {cell}
        ks  == known_safes \cup {cell}
        sc  == set_cells(cell, mm, ks, known_mines)
        dec == known_mine_neighbours(cell, known_mines)
    IN  dec > count \/ count - dec > Cardinality(sc)

\* C5 (as stated): an add_knowledge call with an inconsistent count ends in
\* a fatal error, and no sentence with count > |cells| is ever stored or kept.
C5_InconsistentIsFatal ==
    /\ [][\A cell \in Cells, count \in 0 .. 3 * 3 - 1 :
            (Inconsistent(cell, count) /\ add_knowledge(cell, count))
                => pc' = "panicked"]_vars
    /\ [](\A k \in DOMAIN knowledge :
            knowledge[k].count <= Cardinality(knowledge[k].cells))

\* the end-to-end game: 3 x 3, the mine at (2,2), opened at (0,0)
E2E ==
    /\ height = 3 /\ width = 3
    /\ mines = {<<2, 2>>}
    /\ first_move = <<0, 0>>

\* C7: in the end-to-end game, once add_knowledge((0,0), 0) has returned the
\* cells (0,1), (1,0), (1,1) are known safe; playing make_safe_move's cell
\* each time, every call returns, (2,2) is never revealed, no random move
\* is taken and (2,2) eventually is in known_mines.
C7_EndToEnd ==
    /\ []((E2E /\ pc = "idle") =>
            {<<0, 1>>, <<1, 0>>, <<1, 1>>} \subseteq known_safes)
    /\ [](E2E => (/\ <<2, 2>> \notin moves_made
                  /\ random_used = 0
                  /\ ~lost
                  /\ pc # "panicked"))
    /\ ((E2E /\ pc # "idle") ~> (pc = "idle"))
    /\ (E2E ~> (<<2, 2>> \in known_mines))

\* the end-to-end game played out: all eight safe cells revealed, the mine
\* deduced
C7_Witness ==
    /\ E2E /\ pc = "idle"
    /\ <<2, 2>> \in known_mines
    /\ moves_made = Cells \ {<<2, 2>>}

\* C8: no step of add_knowledge, mark_safe or mark_mine removes a cell from
\* known_mines, known_safes or moves_made.
C8_Monotonic ==
    [][/\ known_mines \subseteq known_mines'
       /\ known_safes \subseteq known_safes'
       /\ moves_made \subseteq moves_made']_vars

\* inside a pass, a mark_safe call is about to run on sets that already
\* hold cells
C8_Witness ==
    /\ pc = "mark" /\ safes_to_mark # {}
    /\ known_safes # {} /\ known_mines # {} /\ moves_made # {}

\* row-major order of the board cells
RowMajorBefore(c, d) == c[1] < d[1] \/ (c[1] = d[1] /\ c[2] < d[2])

\* C9: the cell make_random_move returns is a board cell outside moves_made
\* and known_mines; it returns None exactly when no such cell exists; the
\* call changes nothing of the agent.
C9_RandomMove ==
    /\ [](ret.fn = "make_random_move" =>
            /\ ret.val # None =>
                  /\ ret.val \in Cells
                  /\ ret.val \notin moves_made
                  /\ ret.val \notin known_mines
            /\ ret.val = None <=> Cells \subseteq (moves_made \cup known_mines))
    /\ [][(ret'.fn = "make_random_move" /\ ret' # ret)
            => UNCHANGED <<agentVars, callVars>>]_vars

\* make_random_move returned a cell while a mine was known and another
\* cell was still open
C9_Witness ==
    /\ ret.fn = "make_random_move" /\ ret.val # None
    /\ known_mines # {} /\ moves_made # {}
    /\ Cardinality(Cells \ (moves_made \cup known_mines)) > 1

\* C10: make_safe_move returns the first cell in row-major order that is in
\* known_safes and not in moves_made, None exactly when there is none, and
\* changes nothing of the agent.
C10_SafeMove ==
    /\ [](ret.fn = "make_safe_move" =>
            /\ ret.val # None =>
                  /\ ret.val \in Cells
                  /\ ret.val \in known_safes \ moves_made
                  /\ \A c \in known_safes \ moves_made :
                        ~RowMajorBefore(c, ret.val)
            /\ ret.val = None <=> (Cells \cap known_safes) \subseteq moves_made)
    /\ [][(ret'.fn = "make_safe_move" /\ ret' # ret)
            => UNCHANGED <<agentVars, callVars>>]_vars

\* make_safe_move returned a cell although a cell of an earlier column,
\* in a later row, was safe and open too
C10_Witness ==
    /\ ret.fn = "make_safe_move" /\ ret.val # None
    /\ \E c \in known_safes \ moves_made :
          c[2] < ret.val[2] /\ c[1] > ret.val[1]

\* C11: on the state a completed add_knowledge call leaves, one more pass of
\* the inference loop stages no mark, prunes nothing, derives nothing,
\* reports no change and leaves known_safes, known_mines and knowledge as
\* they are (moves_made is not touched by a pass).
C11_Idempotent ==
    (pc = "idle" /\ moves_made # {}) =>
        inference_pass(known_safes, known_mines, knowledge)
            = [known_safes |-> known_safes, known_mines |-> known_mines,
               knowledge |-> knowledge, changes |-> FALSE]

\* a call that marked mines and safes has returned and left live sentences
C11_Witness ==
    /\ pc = "idle" /\ Len(knowledge) >= 2
    /\ known_mines # {} /\ known_safes # moves_made

\* C12: with true clues every sentence in knowledge has
\* 0 <= count <= |cells|, between the single mark calls of a pass too.
C12_CountInRange ==
    \A k \in DOMAIN knowledge :
        /\ 0 <= knowledge[k].count
        /\ knowledge[k].count <= Cardinality(knowledge[k].cells)

\* in the middle of the mark_mine calls of a pass: one mine marked, another
\* still staged, a sentence already reduced to no cell
C12_Witness ==
    /\ pc = "mark" /\ safes_to_mark = {} /\ mines_to_mark # {}
    /\ known_mines # {}
    /\ \E k \in DOMAIN knowledge : knowledge[k].cells = {}

\* C14 (as stated): in every reachable state the number of sentences in
\* knowledge is at most the number of revealed cells, |moves_made|.
C14_Bounded == Len(knowledge) <= Cardinality(moves_made)

\* C14 (amended): a call of add_knowledge reveals one more cell and appends
\* at most one sentence, its evidence, so the evidence sentences number at
\* most |moves_made| <= height x width; every other growth of knowledge
\* is step 5 appending derived sentences, which come on top of that.
C14_EvidenceBounded ==
    /\ [][ /\ (pc = "idle" /\ pc' = "loop") =>
                /\ Len(knowledge') <= Len(knowledge) + 1
                /\ Cardinality(moves_made') = Cardinality(moves_made) + 1
           /\ Len(knowledge') > Len(knowledge) =>
                \/ pc = "idle" /\ pc' = "loop"
                \/ pc = "mark" /\ pc' = "loop" ]_vars
    /\ [](Cardinality(moves_made) <= height * width)

\* three calls have returned and the evidence of each is still live
C14_Witness ==
    /\ pc = "idle" /\ Cardinality(moves_made) >= 3
    /\ Len(knowledge) = Cardinality(moves_made)

\* the sentences of kn that have a cell, in their order
Live(kn) == SelectSeq(kn, LAMBDA s : s.cells # {})

\* the ordered pairs (A, B) of a snapshot, by position, with B.cells a
\* proper non-empty part of A.cells
SubsetPairs(snap) ==
    { p \in (DOMAIN snap) \X (DOMAIN snap) :
        /\ snap[p[2]].cells # {}
        /\ snap[p[2]].cells \subseteq snap[p[1]].cells
        /\ snap[p[2]].cells # snap[p[1]].cells }

\* C15: a pass's step 5 keeps the pruned snapshot and appends exactly the
\* sentences (A.cells - B.cells, A.count - B.count), one for each ordered
\* pair A, B of the snapshot with B.cells a proper non-empty part of
\* A.cells; each has a cell, and fewer cells than A; pairs with equal cell
\* sets yield nothing.
C15_SubsetDifference ==
    [][ (pc = "mark" /\ pc' = "loop") =>
          LET snap  == Live(knowledge)
              added == SubSeq(knowledge', Len(snap) + 1, Len(knowledge'))
          IN  /\ Len(knowledge') >= Len(snap)
              /\ SubSeq(knowledge', 1, Len(snap)) = snap
              /\ Range(added) =
                   { [cells |-> snap[p[1]].cells \ snap[p[2]].cells,
                      count |-> snap[p[1]].count - snap[p[2]].count] :
                     p \in SubsetPairs(snap) }
              /\ Len(added) = Cardinality(SubsetPairs(snap))
              /\ \A p \in SubsetPairs(snap) :
                   LET d == snap[p[1]].cells \ snap[p[2]].cells
                   IN  d # {} /\ Cardinality(d) < Cardinality(snap[p[1]].cells)
              /\ \A k \in DOMAIN added : added[k].cells # {} ]_vars

\* step 5 has just appended the difference of two sentences that lie
\* before it, from a snapshot that had lost an emptied sentence
C15_Witness ==
    /\ pc = "loop" /\ changes /\ Len(knowledge) >= 3
    /\ \E i, j \in 1 .. Len(knowledge) - 1 :
        /\ knowledge[j].cells # {} /\ knowledge[j].cells # knowledge[i].cells
        /\ knowledge[j].cells \subseteq knowledge[i].cells
        /\ knowledge[Len(knowledge)] =
             [cells |-> knowledge[i].cells \ knowledge[j].cells,
              count |-> knowledge[i].count - knowledge[j].count]

\* the 8-neighbourhood of a cell clipped to the board, without the cell
Around(cell) ==
    { c \in (0 .. height - 1) \X (0 .. width - 1) :
        /\ c # cell
        /\ c[1] - cell[1] \in -1 .. 1
        /\ c[2] - cell[2] \in -1 .. 1 }

\* C16: steps 1-3 of add_knowledge(cell, n), before any pass: cell joins
\* moves_made and known_safes and leaves every sentence (counts kept); the
\* new sentence is (N - (moves_made \cup known_safes \cup known_mines),
\* n - |N \cap known_mines|), N the clipped neighbourhood of cell, and it
\* is appended iff it has a cell.
C16_Evidence ==
    [][ (pc = "idle" /\ pc' = "loop") =>
          \E cell \in (0 .. height - 1) \X (0 .. width - 1) :
            LET N        == Around(cell)
                n        == Cardinality(N \cap mines)
                stripped == [k \in DOMAIN knowledge |->
                               [cells |-> knowledge[k].cells \ {cell},
                                count |-> knowledge[k].count]]
                new      == [cells |-> N \ (moves_made' \cup known_safes'
                                                \cup known_mines'),
                             count |-> n - Cardinality(N \cap known_mines)]
            IN  /\ cell \notin moves_made
                /\ moves_made' = moves_made \cup {cell}
                /\ known_safes' = known_safes \cup {cell}
                /\ known_mines' = known_mines
                /\ knowledge' = IF new.cells # {} THEN Append(stripped, new)
                                                  ELSE stripped
                /\ safes_to_mark' = {} /\ mines_to_mark' = {} ]_vars

\* a call has just appended the evidence of a cell that has a known mine
\* and an unrevealed known safe cell next to it
C16_Witness ==
    /\ pc = "loop" /\ changes /\ Len(knowledge) >= 2
    /\ \A k \in DOMAIN knowledge :
          0 < knowledge[k].count /\ knowledge[k].count < Cardinality(knowledge[k].cells)
    /\ \E cell \in moves_made :
        /\ Around(cell) \cap known_mines # {}
        /\ Around(cell) \cap (known_safes \ moves_made) # {}
        /\ knowledge[Len(knowledge)] =
             [cells |-> Around(cell) \ (moves_made \cup known_safes
                                           \cup known_mines),
              count |-> nearby_mines(cell)
                          - Cardinality(Around(cell) \cap known_mines)]

\* C17: when add_knowledge has returned, and at the head of the loop, where
\* a sentence has just been appended from evidence or by step 5, no
\* sentence of knowledge holds a cell of moves_made, known_safes or
\* known_mines.
C17_OnlyUndetermined ==
    pc \in {"idle", "loop"} =>
        \A k \in DOMAIN knowledge :
            knowledge[k].cells
                \cap (moves_made \cup known_safes \cup known_mines) = {}

\* a returned call has left a sentence that lost cells to a mine and to a
\* safe cell found by inference
C17_Witness ==
    /\ pc = "idle"
    /\ \E r \in moves_made, k \in DOMAIN knowledge :
        /\ knowledge[k].cells \subseteq Around(r)
        /\ (Around(r) \ knowledge[k].cells) \cap known_mines # {}
        /\ (Around(r) \ knowledge[k].cells) \cap (known_safes \ moves_made) # {}

\* C18: when add_knowledge has returned, knowledge has no sentence without
\* cells, no sentence with count = 0 or count = |cells|, and no two
\* sentences with the cells of one a proper non-empty part of the other's.
C18_Closed ==
    pc = "idle" =>
        /\ \A k \in DOMAIN knowledge :
            /\ knowledge[k].cells # {}
            /\ knowledge[k].count # 0
            /\ knowledge[k].count # Cardinality(knowledge[k].cells)
        /\ \A i, j \in DOMAIN knowledge :
            ~ /\ knowledge[j].cells # {}
              /\ knowledge[j].cells \subseteq knowledge[i].cells
              /\ knowledge[j].cells # knowledge[i].cells

\* a returned call has left two sentences that share a cell, neither
\* holding all cells of the other, after a pass that marked a mine
C18_Witness ==
    /\ pc = "idle" /\ known_mines # {}
    /\ \E i, j \in DOMAIN knowledge :
        /\ knowledge[i].cells \cap knowledge[j].cells # {}
        /\ knowledge[i].cells \ knowledge[j].cells # {}
        /\ knowledge[j].cells \ knowledge[i].cells # {}

\* kn2 is kn with the cell taken out of every sentence that holds it and the
\* count of those sentences lowered by dec; same number and order of
\* sentences, the others as they were
Stripped(kn, kn2, cell, dec) ==
    /\ Len(kn2) = Len(kn)
    /\ \A k \in DOMAIN kn :
        kn2[k] = IF cell \in kn[k].cells
                 THEN [cells |-> kn[k].cells \ {cell}, count |-> kn[k].count - dec]
                 ELSE kn[k]

\* C19: the agent's mark_mine(cell) adds the cell to known_mines, takes it
\* out of every sentence holding it with the count one lower, and leaves
\* known_safes, moves_made, the number and order of the sentences and the
\* other sentences as they were; a second call with the same cell changes
\* nothing. mark_safe(cell) does the same with known_safes and the count kept.
C19_MarkFrame ==
    [][ /\ (pc = "mark" /\ pc' = "mark" /\ mines_to_mark' # mines_to_mark) =>
            \E cell \in mines_to_mark \ mines_to_mark' :
                /\ known_mines' = known_mines \cup {cell}
                /\ Stripped(knowledge, knowledge', cell, 1)
                /\ known_safes' = known_safes /\ moves_made' = moves_made
                /\ mark_mine(known_mines', knowledge', cell)
                       = <<known_mines', knowledge'>>
        /\ (pc = "mark" /\ pc' = "mark" /\ safes_to_mark' # safes_to_mark) =>
            \E cell \in safes_to_mark \ safes_to_mark' :
                /\ known_safes' = known_safes \cup {cell}
                /\ Stripped(knowledge, knowledge', cell, 0)
                /\ known_mines' = known_mines /\ moves_made' = moves_made
                /\ mark_safe(known_safes', knowledge', cell)
                       = <<known_safes', knowledge'>> ]_vars

\* in the middle of a pass that staged safe cells and mines: a safe cell
\* found by inference is marked, mines are still to be marked
C19_Witness ==
    /\ pc = "mark" /\ mines_to_mark # {}
    /\ (known_safes \ moves_made) \cap staged_safes(knowledge) = {}
    /\ known_safes \ moves_made # {}
    /\ \E k \in DOMAIN knowledge : knowledge[k].cells \cap mines_to_mark = {}
    /\ \E k \in DOMAIN knowledge : knowledge[k].cells \cap mines_to_mark # {}

\* C20: with true clues, the count of every sentence of knowledge is the
\* number of mines of the board among its cells, in every reachable state.
C20_CountIsTrue ==
    \A k \in DOMAIN knowledge :
        knowledge[k].count = Cardinality(knowledge[k].cells \cap mines)

\* the evidence of a cell next to a known mine is in knowledge with a count
\* below the cell's clue, among three sentences or more
C20_Witness ==
    /\ Len(knowledge) >= 3
    /\ \E r \in moves_made, k \in DOMAIN knowledge :
        /\ Around(r) \cap known_mines # {}
        /\ knowledge[k].cells = Around(r) \ (moves_made \cup known_safes
                                                \cup known_mines)
        /\ 0 < knowledge[k].count
        /\ knowledge[k].count < Cardinality(Around(r) \cap mines)

\* C13: in the driver, whatever the order of left clicks, AI moves, right
\* clicks and resets, add_knowledge is called at most once per cell between
\* two resets, only for a cell of the board that is not a mine, with the
\* number of mines around the cell as count; revealed equals moves_made.
C13_OncePerCell ==
    /\ ~ak_repeat
    /\ \A p \in ak_calls :
        /\ p[1] \in (0 .. height - 1) \X (0 .. width - 1)
        /\ p[1] \notin mines
        /\ p[2] = Cardinality(Around(p[1]) \cap mines)
    /\ { p[1] : p \in ak_calls } = revealed
    /\ revealed = moves_made

\* a lost game that goes on: a flag set by a right click, a move taken
\* from make_random_move, and cells revealed after the loss
C13_Witness ==
    /\ lost /\ flags # {} /\ random_used >= 1
    /\ Cardinality(ak_calls) >= 2
    /\ pc = "idle"

\* C21: with true clues on non-mine cells no unsigned subtraction goes below
\* zero: the call never panics; a cell that can be revealed next has no more
\* known mines around it than its clue (`count -= 1` of step 3); a sentence
\* holding a mine staged for mark_mine has count >= 1 (`self.count -= 1`);
\* and whenever the cells of one sentence are a part of another's, its count
\* is not above the other's (`s1.count - s2.count`).
C21_NoUnderflow ==
    /\ pc # "panicked"
    /\ pc = "idle" =>
        \A cell \in ((0 .. height - 1) \X (0 .. width - 1))
                        \ (mines \cup moves_made) :
            Cardinality(Around(cell) \cap known_mines)
                <= Cardinality(Around(cell) \cap mines)
    /\ \A k \in DOMAIN knowledge :
        \A mine \in mines_to_mark \cap knowledge[k].cells :
            knowledge[k].count >= 1
    /\ \A i, j \in DOMAIN knowledge :
        knowledge[j].cells \subseteq knowledge[i].cells
            => knowledge[j].count <= knowledge[i].count

\* the three subtractions at work: a mine is known, a staged mine sits in
\* a sentence of count 1 whose cells are a proper part of those of a
\* sentence of count 2 or more
C21_Witness ==
    /\ pc = "mark" /\ safes_to_mark = {} /\ known_mines # {}
    /\ \E i, j \in DOMAIN knowledge :
        /\ knowledge[j].cells \cap mines_to_mark # {}
        /\ knowledge[j].count = 1
        /\ knowledge[j].cells \subseteq knowledge[i].cells
        /\ knowledge[j].cells # knowledge[i].cells
        /\ knowledge[i].count >= 2

\* C22: in the driver, where only cells that are no mines get revealed and
\* the clues are true: whenever make_random_move has no cell to return,
\* make_safe_move has none either and known_mines is the mine set of the
\* board; once the AI Move button has got None from both and set the
\* flags, flags is the mine set, which is the winner test of draw.
C22_NoneMeansWon ==
    /\ (pc = "idle" /\ make_random_move = {None}) =>
            /\ known_mines = mines
            /\ known_safes \subseteq moves_made
            /\ moves_made = ((0 .. height - 1) \X (0 .. width - 1)) \ mines
    /\ (ret.fn = "make_random_move" /\ ret.val = None) =>
            /\ known_mines = mines
            /\ flags = mines

\* the game is won through the AI: two mines or more deduced, every other
\* cell revealed, a random move taken on the way, the button pressed once
\* more with no move left
C22_Witness ==
    /\ pc = "idle" /\ ~lost
    /\ ret.fn = "make_random_move" /\ ret.val = None
    /\ Cardinality(mines) >= 2 /\ Cardinality(moves_made) >= 2
    /\ random_used >= 1
    /\ flags = mines

\* C6 (as stated): knowledge never holds two equal sentences.
C6_NoDuplicates ==
    \A i, j \in DOMAIN knowledge : i # j => knowledge[i] # knowledge[j]

====
